---------------------------- MODULE Spec2Model ----------------------------
(***************************************************************************)
(* Model of the warehouse loader (warehouse-loader/warehouse-loader.py):   *)
(* the key cache, the partition assignment, the key routing and the bonobo *)
(* graph that publishes raw objects into training/ and validation/.        *)
(*                                                                         *)
(* Object keys are TLA+ strings; the string helpers below rebuild the      *)
(* pathlib / re / str operations the loader applies to them, character by  *)
(* character.                                                              *)
(***************************************************************************)
EXTENDS Integers, Sequences, FiniteSets, TLC

VARIABLES
    store,      \* the bucket: key -> object content (raw/, training/, validation/)
    keycache,   \* KeyCache.store of the current run's keycache service
    run,        \* number of the current invocation of the loader
    phase,      \* "load" | "folders" | "files" | "terminated"
    folders,    \* input queue of extract_raw_files_from_folder
    q_image,    \* input queue of process_image
    q_patient,  \* input queue of process_patient_data
    q_copy,     \* input queue of data_copy
    q_dicom,    \* input queue of process_dicom_data
    q_upload,   \* input queue of upload_extracted_dicom_data
    gen,        \* process_image's suspended generator (after its first check)
    faults,     \* store errors injected so far
    hist,       \* history of the runs (store-mutating calls, emitted tasks, ...)
    added,      \* the keys KeyCache.add has been called with on the current keycache
    call,       \* last call of a function exercised on its own, with its result
    other       \* a second loader process on the same bucket, while it is not stepping

vars == <<store, keycache, run, phase, folders, q_image, q_patient, q_copy,
          q_dicom, q_upload, gen, faults, hist, added, call, other>>

---------------------------------------------------------------------------
(* Bounds of the model *)

\* nesting depth of the JSON trees handed to the scrubber on its own
MaxDepth == 3
\* times the scheduler switches between two concurrent loader processes
MaxSwitches == 3
\* invocations of the loader (bonobo.run) in one behaviour
MaxRuns == 2
\* raw objects present in the bucket
MaxObjects == 2
\* store errors (other than 404) the bucket may answer in one behaviour
MaxFaults == 1

---------------------------------------------------------------------------
(* Strings *)

CharAt(s, i) == SubSeq(s, i, i)

Lowercase == "abcdefghijklmnopqrstuvwxyz"
Uppercase == "ABCDEFGHIJKLMNOPQRSTUVWXYZ"
DateChars == "0123456789-"
HexDigits == "0123456789abcdef"

\* position of the one-character string c in s, 0 when absent
IndexIn(s, c) ==
    IF \E i \in 1..Len(s) : CharAt(s, i) = c
    THEN CHOOSE i \in 1..Len(s) : CharAt(s, i) = c /\ \A j \in 1..(i-1) : CharAt(s, j) # c
    ELSE 0

\* position of the last occurrence of c in s, 0 when absent (str.rfind + 1)
RFind(s, c) ==
    IF \E i \in 1..Len(s) : CharAt(s, i) = c
    THEN CHOOSE i \in 1..Len(s) : CharAt(s, i) = c /\ \A j \in (i+1)..Len(s) : CharAt(s, j) # c
    ELSE 0

RECURSIVE MapChars(_, _, _, _)
MapChars(s, from, to, i) ==
    IF i > Len(s) THEN ""
    ELSE LET c == CharAt(s, i)
             k == IndexIn(from, c)
         IN  (IF k = 0 THEN c ELSE CharAt(to, k)) \o MapChars(s, from, to, i + 1)

\* str.lower mutated: the call is left out
LowerOmitted(s) == s

\* str.upper / str.lower
Upper(s) == MapChars(s, Lowercase, Uppercase, 1)
Lower(s) == MapChars(s, Uppercase, Lowercase, 1)

StartsWith(s, p) == Len(s) >= Len(p) /\ SubSeq(s, 1, Len(p)) = p
EndsWith(s, p) == Len(s) >= Len(p) /\ SubSeq(s, Len(s) - Len(p) + 1, Len(s)) = p

---------------------------------------------------------------------------
(* pathlib.Path *)

RECURSIVE StripSlashes(_)
StripSlashes(s) ==
    IF Len(s) > 0 /\ CharAt(s, Len(s)) = "/" THEN StripSlashes(SubSeq(s, 1, Len(s) - 1))
    ELSE s

\* Path(key).name: the last component, trailing slashes dropped
PathName(key) ==
    LET k == StripSlashes(key)
    IN  SubSeq(k, RFind(k, "/") + 1, Len(k))

\* Path(key).suffix: from the last dot of the name, unless the dot leads or ends it
PathSuffix(key) ==
    LET name == PathName(key)
        i == RFind(name, ".")
    IN  IF 1 < i /\ i < Len(name) THEN SubSeq(name, i, Len(name)) ELSE ""

\* Path(key).stem
PathStem(key) ==
    LET name == PathName(key)
        i == RFind(name, ".")
    IN  IF 1 < i /\ i < Len(name) THEN SubSeq(name, 1, i - 1) ELSE name

\* Python values kept in the key cache: str and Path objects never compare equal
PyStr(s) == [type |-> "str", value |-> s]
PyPath(s) == [type |-> "Path", value |-> s]

---------------------------------------------------------------------------
(* KeyCache *)

\* KeyCache.add mutated: the filename entry is left out
KeyCacheAddFullOnly(cache, key) == cache \cup {PyStr(key)}

\* KeyCache.add: the new KeyCache.store
KeyCacheAdd(cache, key) == cache \cup {PyStr(key), PyStr(PathName(key))}

\* KeyCache.exists
KeyCacheExists(cache, key, fullpath) ==
    IF fullpath THEN PyPath(key) \in cache
    ELSE PyStr(PathName(key)) \in cache

---------------------------------------------------------------------------
(* Program constants *)

RAW_PREFIX == "raw/"
TRAINING_PREFIX == "training/"
VALIDATION_PREFIX == "validation/"
TRAINING_PERCENTAGE == 60

\* MODALITY mutated: the CR entry is missing
MODALITY_without_CR(code) ==
    CASE code = "DX" -> "x-ray"
      [] code = "MR" -> "mri"
      [] code = "CT" -> "ct"
      [] OTHER -> "unknown"

\* MODALITY.get(code, "unknown")
MODALITY(code) ==
    CASE code = "DX" -> "x-ray"
      [] code = "CR" -> "x-ray"
      [] code = "MR" -> "mri"
      [] code = "CT" -> "ct"
      [] OTHER -> "unknown"

---------------------------------------------------------------------------
(* Partition assignment *)

\* hashlib.sha512(s.encode("utf-8")).hexdigest(), tabulated on the ids of the model
sha512_hexdigest(s) ==
    CASE s = "P001" -> "c30f098b27bac5914f41ef5bf369123b1443e03c8779dbb7a0f1f98d21a2deb134abb5bd34eed4701fb3af985ead237eca85e8964b650c74ec0f61094b3a4d2c"
      [] s = "p001" -> "be8ba1961a6eb20f4d67e9f766d8f76b6ddc941ac0837188782596ba4c7c005f43902a0120d90bb776f6ae10d2d03f56c60459e89bf737c558991a4b832276f8"
      [] s = "P002" -> "2d87ac06746f442690b217161e966bef0cc98a044f226c75590272ab504e3d5b6bfcc9a0335697e52291c1f57a80a97e4bd4bd590526cccca7dafcf4d05385b2"
      [] s = "p002" -> "ea05bde231f345dbb588946465c8e9252353b75c904d9ad32731aea8666cbca7b512f0efacc01edddee19087994fee26afe73b0ce9af7592b9788f4f16f63b3f"
      [] s = "P006" -> "fec444f3deae65738fc726c4c99325c8f5f54360060f6054765a525e6e956e6d2a0e7552c2893c363954b003aa0a44320b04833917b674c7da8799f2dc2654e0"
      [] s = "p006" -> "a65f2311f122d5919276249de516d5832950184c3104b433fdc86ccf6e4d6ef8e9139a5edc64f41c68964d405a63c21c7f27ef1b237f378258493787c0ce85bb"

\* 16^k % 100
RECURSIVE Pow16Mod100(_)
Pow16Mod100(k) ==
    IF k = 0 THEN 1
    ELSE LET h == Pow16Mod100(k \div 2)
         IN  (h * h * (IF k % 2 = 1 THEN 16 ELSE 1)) % 100

\* int(hex[i..j], 16) % 100, by halves of the digit string
RECURSIVE HexMod100(_, _, _)
HexMod100(hex, i, j) ==
    IF i = j THEN IndexIn(HexDigits, CharAt(hex, i)) - 1
    ELSE LET m == (i + j) \div 2
         IN  (HexMod100(hex, i, m) * Pow16Mod100(j - m) + HexMod100(hex, m + 1, j)) % 100

\* the ids the model's objects and calls use, and the residue of each digest
HashedIds == {"P001", "p001", "P002", "p002", "P006", "p006"}
DigestMod100 == [s \in HashedIds |-> HexMod100(sha512_hexdigest(s), 1, Len(sha512_hexdigest(s)))]

\* patient_in_training_set mutated: the id is hashed as given
patient_in_training_set_no_upper(patient_id, training_percent) ==
    DigestMod100[patient_id] < training_percent

\* patient_in_training_set mutated: the cut-off is inclusive
patient_in_training_set_inclusive(patient_id, training_percent) ==
    DigestMod100[Upper(patient_id)] <= training_percent

\* patient_in_training_set
patient_in_training_set(patient_id, training_percent) ==
    DigestMod100[Upper(patient_id)] < training_percent

---------------------------------------------------------------------------
(* Key routing *)

RECURSIVE DateRun(_, _)
\* end of the longest run of [\d-] characters of s that starts at position i
DateRun(s, i) ==
    IF i <= Len(s) /\ IndexIn(DateChars, CharAt(s, i)) # 0 THEN DateRun(s, i + 1) ELSE i

\* Python's None
None == [type |-> "None"]

\* get_date_from_key: re.match(rf"^{prefix}(?P<date>[\d-]*)/.*", key)
get_date_from_key(key, prefix) ==
    IF ~StartsWith(key, prefix) THEN None
    ELSE LET b == Len(prefix) + 1
             e == DateRun(key, b)
         IN  IF e <= Len(key) /\ CharAt(key, e) = "/"
             THEN PyStr(SubSeq(key, b, e - 1))
             ELSE None

\* "if date:" mutated into "if date is not None:"
Truthy_not_none(date) == date.type = "str"

\* Python truth of the value get_date_from_key returns ("if date:")
Truthy(date) == date.type = "str" /\ date.value # ""

---------------------------------------------------------------------------
(* The bucket *)

\* boto3 ObjectSummary of a raw object
ObjectSummary(key) == [type |-> "ObjectSummary", key |-> key]

\* bytes of a DICOM file: the header elements the loader and the scrubber read
DicomFile(patient_id, modality, uid) ==
    [type |-> "dicom", PatientID |-> patient_id, Modality |-> modality, SOPInstanceUID |-> uid]

\* bytes of any other file
Bytes(of) == [type |-> "bytes", of |-> of]

\* the raw objects a bucket of the model may hold, in S3 listing order
RawUniverse == <<
    "raw//P001_status.json",
    "raw/2022-01-05/studyA/P001_data.json",
    "raw/2022-01-05/studyA/broken.dcm",
    "raw/2022-01-05/studyA/img1.dcm",
    "raw/2022-01-05/studyB/img1.dcm",
    "raw/2022-01-06/studyA/P002_status.json",
    "raw/2022-01-06/studyA/img1.dcm",
    "raw/incoming/img2.dcm" >>

RawKeys == {RawUniverse[i] : i \in DOMAIN RawUniverse}

\* the raw objects of a bucket that holds one object of the 2022-01-07 drop
RouteUniverse == <<
    "raw/2022-01-07/P006_status.JSON",
    "raw/2022-01-07/a/b/p002_data.json",
    "raw/2022-01-07/a/b/scan.2.DCM",
    "raw/2022-01-07/a/manifest.json",
    "raw/2022-01-07/a/readme.txt",
    "raw/2022-01-07/scan1.dcm" >>

\* every raw key of the model, in the order S3 lists keys (UTF-8 binary order)
KeyOrder ==
    SubSeq(RawUniverse, 1, Len(RawUniverse) - 1) \o RouteUniverse
        \o SubSeq(RawUniverse, Len(RawUniverse), Len(RawUniverse))

RawContent(key) ==
    CASE key = "raw/2022-01-05/studyA/img1.dcm" -> DicomFile("P001", "DX", "1.1")
      [] key = "raw/2022-01-05/studyB/img1.dcm" -> DicomFile("P001", "CR", "1.2")
      [] key = "raw/2022-01-06/studyA/img1.dcm" -> DicomFile("p001", "US", "1.3")
      [] key = "raw/incoming/img2.dcm" -> DicomFile("P002", "CT", "1.4")
      [] OTHER -> Bytes(key)

\* keys of the bucket that start with prefix, in listing order
RECURSIVE ListFrom(_, _, _)
ListFrom(st, prefix, i) ==
    IF i > Len(KeyOrder) THEN <<>>
    ELSE (IF KeyOrder[i] \in DOMAIN st /\ StartsWith(KeyOrder[i], prefix)
          THEN <<KeyOrder[i]>> ELSE <<>>) \o ListFrom(st, prefix, i + 1)

\* bucket.objects.filter(Prefix=prefix) under raw/
ListRaw(st, prefix) == ListFrom(st, prefix, 1)

\* bucket.objects.filter(Prefix=prefix) under training/ or validation/ (as a set)
ListPublished(st, prefix) == {k \in DOMAIN st : StartsWith(k, prefix)}

\* the first-level folder of a raw key: "raw/<segment>/"
FolderOf(key) ==
    LET rest == SubSeq(key, Len(RAW_PREFIX) + 1, Len(key))
        i == IndexIn(rest, "/")
    IN  SubSeq(key, 1, Len(RAW_PREFIX) + i)

RECURSIVE Dedup(_)
Dedup(seq) ==
    IF seq = <<>> THEN <<>>
    ELSE LET rest == Dedup(Tail(seq))
         IN  IF rest # <<>> /\ Head(rest) = Head(seq) THEN rest ELSE <<Head(seq)>> \o rest

RECURSIVE MapFolder(_)
MapFolder(seq) == IF seq = <<>> THEN <<>> ELSE <<FolderOf(Head(seq))>> \o MapFolder(Tail(seq))

\* list_objects(Prefix=RAW_PREFIX, Delimiter="/")["CommonPrefixes"]
CommonPrefixes(st) == Dedup(MapFolder(ListRaw(st, RAW_PREFIX)))

\* the bucket's answer to bucket.Object(key).load(): the HTTP status
Load(st, key, fault) ==
    IF fault THEN "500" ELSE IF key \in DOMAIN st THEN "200" ELSE "404"

\* bucket.copy mutated: the new object is left without its content
CopyTruncated(st, src, new_key) ==
    [k \in DOMAIN st \cup {new_key} |-> IF k = new_key THEN Bytes("") ELSE st[k]]

\* the bucket after bucket.copy({"Key": src}, new_key)
Copy(st, src, new_key) ==
    [k \in DOMAIN st \cup {new_key} |-> IF k = new_key THEN st[src] ELSE st[k]]

\* the bucket after bucket.put_object(Body=body, Key=key)
PutObject(st, key, body) ==
    [k \in DOMAIN st \cup {key} |-> IF k = key THEN body ELSE st[k]]

Return(v) == [type |-> "return", value |-> v]
Raise(exc) == [type |-> "raise", value |-> exc]

\* "raise cls": the class is instantiated without arguments, and ClientError's
\* constructor requires error_response and operation_name
RaiseClass(cls) == Raise(IF cls = "ClientError" THEN "TypeError" ELSE cls)

\* object_exists mutated: every ClientError is read as "not found", and so is success
object_exists_always_absent(response) == Return(FALSE)

\* object_exists mutated: any ClientError is read as "not found"
object_exists_swallow_errors(response) ==
    IF response # "200" THEN Return(FALSE) ELSE Return(TRUE)

\* object_exists, on the answer of load()
object_exists(response) ==
    IF response # "200"
    THEN IF response = "404" THEN Return(FALSE) ELSE RaiseClass("ClientError")
    ELSE Return(TRUE)

\* pydicom.dcmread(tmp, stop_before_pixels=True) of a downloaded object
dcmread(content) ==
    [type |-> "FileDataset", PatientID |-> content.PatientID,
     Modality |-> content.Modality, SOPInstanceUID |-> content.SOPInstanceUID]

---------------------------------------------------------------------------
(* Routing of one raw object *)

\* the prefix mutated: a validation patient's objects are routed back under raw/
PrefixRaw(patient_id) ==
    IF patient_in_training_set(patient_id, TRAINING_PERCENTAGE)
    THEN TRAINING_PREFIX ELSE RAW_PREFIX

\* process_image / process_patient_data, prefix
Prefix(patient_id) ==
    IF patient_in_training_set(patient_id, TRAINING_PERCENTAGE)
    THEN TRAINING_PREFIX ELSE VALIDATION_PREFIX

\* process_image, new_key
ImageDataKey(key, image_data, date) ==
    Prefix(image_data.PatientID) \o MODALITY(image_data.Modality) \o "/"
        \o image_data.PatientID \o "/" \o date \o "/" \o PathName(key)

\* process_image, metadata_key
ImageMetadataKey(key, image_data, date) ==
    Prefix(image_data.PatientID) \o MODALITY(image_data.Modality) \o "-metadata/"
        \o image_data.PatientID \o "/" \o date \o "/" \o PathStem(key) \o ".json"

\* re.match("^(?P<patient_id>.*)_(?P<outcome>data|status)$", stem): the groups, or None
PatientMatch(stem) ==
    IF EndsWith(stem, "_data")
    THEN [type |-> "Match", patient_id |-> SubSeq(stem, 1, Len(stem) - 5), outcome |-> "data"]
    ELSE IF EndsWith(stem, "_status")
    THEN [type |-> "Match", patient_id |-> SubSeq(stem, 1, Len(stem) - 7), outcome |-> "status"]
    ELSE None

\* process_patient_data, new_key, mutated: the patient id is upper-cased in the key
PatientDataKey_upper_id(m, date) ==
    Prefix(m.patient_id) \o "data/" \o Upper(m.patient_id) \o "/" \o date \o "/" \o m.outcome \o ".json"

\* process_patient_data, new_key
PatientDataKey(m, date) ==
    Prefix(m.patient_id) \o "data/" \o m.patient_id \o "/" \o date \o "/" \o m.outcome \o ".json"

\* the check "if work is already done" mutated: one of the two names is enough
ImageInCacheEither(cache, key) ==
    KeyCacheExists(cache, PathStem(key) \o ".json", FALSE) \/ KeyCacheExists(cache, key, FALSE)

\* process_image's check "if work is already done" against the key cache
ImageInCache(cache, key) ==
    KeyCacheExists(cache, PathStem(key) \o ".json", FALSE) /\ KeyCacheExists(cache, key, FALSE)

---------------------------------------------------------------------------
(* Metadata redaction *)

\* JSON values: dict, list, str and null
Dict(items) == [type |-> "dict", items |-> items]
List(items) == [type |-> "list", items |-> items]

\* a pydicom dataset given by its DICOM JSON model
Dataset(tree) == [type |-> "Dataset", json |-> tree]

\* FileDataset.to_json_dict(bulk_data_threshold=1e20): the DICOM JSON model of the header
to_json_dict(fd) ==
    IF fd.type = "Dataset" THEN fd.json
    ELSE
    Dict([tag \in {"00080018", "00080060", "00100020", "00283010", "00880200"} |->
        CASE tag = "00080018" -> Dict([f \in {"vr", "Value"} |->
                 IF f = "vr" THEN PyStr("UI") ELSE List(<<PyStr(fd.SOPInstanceUID)>>)])
          [] tag = "00080060" -> Dict([f \in {"vr", "Value"} |->
                 IF f = "vr" THEN PyStr("CS") ELSE List(<<PyStr(fd.Modality)>>)])
          [] tag = "00100020" -> Dict([f \in {"vr", "Value"} |->
                 IF f = "vr" THEN PyStr("LO") ELSE List(<<PyStr(fd.PatientID)>>)])
          [] tag = "00283010" -> Dict([f \in {"vr", "Value"} |->
                 IF f = "vr" THEN PyStr("SQ")
                 ELSE List(<<Dict([g \in {"00283002"} |-> Dict([f2 \in {"vr", "Value"} |->
                          IF f2 = "vr" THEN PyStr("US") ELSE List(<<PyStr("256")>>)])])>>)])
          [] tag = "00880200" -> Dict([f \in {"vr", "Value"} |->
                 IF f = "vr" THEN PyStr("SQ")
                 ELSE List(<<Dict([g \in {"7FE00010"} |-> Dict([f2 \in {"vr", "InlineBinary"} |->
                          IF f2 = "vr" THEN PyStr("OW") ELSE PyStr("AAEC")])])>>)])])

\* inplace_nullify mutated: lists are not descended into
RECURSIVE inplace_nullify_no_lists(_, _)
inplace_nullify_no_lists(d, key) ==
    IF d.type = "dict"
    THEN Dict([k \in DOMAIN d.items |->
                  IF k = key THEN None ELSE inplace_nullify_no_lists(d.items[k], key)])
    ELSE d

\* inplace_nullify: the value d holds afterwards
RECURSIVE inplace_nullify(_, _)
inplace_nullify(d, key) ==
    IF d.type = "list"
    THEN List([i \in DOMAIN d.items |-> inplace_nullify(d.items[i], key)])
    ELSE IF d.type = "dict"
    THEN Dict([k \in DOMAIN d.items |->
                  IF k = key THEN None ELSE inplace_nullify(d.items[k], key)])
    ELSE d

\* scrub_dicom
scrub_dicom(fd) ==
    inplace_nullify(inplace_nullify(to_json_dict(fd), "InlineBinary"), "00283010")

\* json.dumps(scrubbed_image_data): the body put_object writes
JsonBody(tree) == [type |-> "json", tree |-> tree]

---------------------------------------------------------------------------
(* The graph: one action per node of get_graph, one step per input *)

NoHistory ==
    [ops |-> {},        \* store-mutating calls of all runs: [run, op, src, dst]
     emitted |-> {},    \* tuples yielded in this run: [node, obj, task, key]
     checks |-> {},     \* live existence checks of this run: [node, obj, key, response]
     fetched |-> {},    \* raw keys this run has called download_fileobj on
     outcomes |-> {},   \* how each input of this run left its node: [node, obj, how]
     start |-> <<>>,    \* the bucket when this run started
     prev |-> "none",   \* how the previous run ended
     clean |-> TRUE]    \* no call of this run has raised

NoCall == [fn |-> "none"]

\* no second loader process is running
NoProcess == [type |-> "None"]

\* whether the bucket answers the next call with an error
FaultChoices == IF faults < MaxFaults THEN {FALSE, TRUE} ELSE {FALSE}

Tick(f) == IF f THEN faults + 1 ELSE faults

\* bonobo's node loop mutated: an exception ends the node, its pending inputs are dropped
AfterErrorStop(inputs) == <<>>

\* bonobo's node loop: an exception raised for one input is reported and the node
\* goes on with the inputs that are left
AfterError(inputs) == inputs

\* the loader has consumed every input of every node
Complete ==
    /\ phase = "files" /\ folders = <<>>
    /\ q_image = <<>> /\ q_patient = <<>> /\ q_copy = <<>>
    /\ q_dicom = <<>> /\ q_upload = <<>> /\ gen = None

Running == phase # "terminated" /\ ~Complete

\* a bucket holding the raw objects of keys and nothing published
BucketOf(keys) == [k \in keys |-> RawContent(k)]

Init ==
    /\ \E keys \in SUBSET RawKeys :
          /\ keys # {} /\ Cardinality(keys) <= MaxObjects
          /\ store = BucketOf(keys)
    /\ keycache = {}
    /\ added = {}
    /\ run = 1
    /\ phase = "load"
    /\ folders = <<>> /\ q_image = <<>> /\ q_patient = <<>>
    /\ q_copy = <<>> /\ q_dicom = <<>> /\ q_upload = <<>>
    /\ gen = None
    /\ faults = 0
    /\ hist = [NoHistory EXCEPT !.start = store]
    /\ call = NoCall
    /\ other = NoProcess

RECURSIVE AddAll(_, _)
AddAll(cache, keys) ==
    IF keys = {} THEN cache
    ELSE LET k == CHOOSE k \in keys : TRUE
         IN  AddAll(KeyCacheAdd(cache, k), keys \ {k})

\* load_existing_files mutated: it returns after the training/ listing
LoadExistingFilesTrainingOnly ==
    /\ phase = "load"
    /\ keycache' = AddAll(keycache, ListPublished(store, TRAINING_PREFIX))
    /\ added' = added \cup ListPublished(store, TRAINING_PREFIX)
    /\ phase' = "folders"
    /\ UNCHANGED <<store, run, folders, q_image, q_patient, q_copy, q_dicom, q_upload,
                   gen, faults, hist, call, other>>

\* load_existing_files
LoadExistingFiles ==
    /\ phase = "load"
    /\ keycache' = AddAll(AddAll(keycache, ListPublished(store, TRAINING_PREFIX)),
                          ListPublished(store, VALIDATION_PREFIX))
    /\ added' = added \cup ListPublished(store, TRAINING_PREFIX)
                      \cup ListPublished(store, VALIDATION_PREFIX)
    /\ phase' = "folders"
    /\ UNCHANGED <<store, run, folders, q_image, q_patient, q_copy, q_dicom, q_upload,
                   gen, faults, hist, call, other>>

\* extract_raw_folders
ExtractRawFolders ==
    /\ phase = "folders"
    /\ folders' = CommonPrefixes(store)
    /\ phase' = "files"
    /\ UNCHANGED <<store, keycache, run, q_image, q_patient, q_copy, q_dicom, q_upload,
                   gen, faults, hist, added, call, other>>

\* extract_raw_files_from_folder mutated: it yields the first object of the folder only
ExtractRawFilesFromFolderFirstOnly ==
    /\ phase = "files" /\ folders # <<>>
    /\ LET objs == SubSeq(ListRaw(store, Head(folders)), 1, 1)
       IN  /\ q_image' = q_image \o objs
           /\ q_patient' = q_patient \o objs
    /\ folders' = Tail(folders)
    /\ UNCHANGED <<store, keycache, run, phase, q_copy, q_dicom, q_upload,
                   gen, faults, hist, added, call, other>>

\* extract_raw_files_from_folder: every object goes to process_image and process_patient_data
ExtractRawFilesFromFolder ==
    /\ phase = "files" /\ folders # <<>>
    /\ LET objs == ListRaw(store, Head(folders))
       IN  /\ q_image' = q_image \o objs
           /\ q_patient' = q_patient \o objs
    /\ folders' = Tail(folders)
    /\ UNCHANGED <<store, keycache, run, phase, q_copy, q_dicom, q_upload,
                   gen, faults, hist, added, call, other>>

Checked(node, key, target, response) ==
    [node |-> node, obj |-> key, key |-> target, response |-> response]
Emitted(node, key, task, target) ==
    [node |-> node, obj |-> key, task |-> task, key |-> target]
Outcome(node, key, how) == [node |-> node, obj |-> key, how |-> how]

\* process_image, from its input to the first existence check and the "copy" it may yield
ProcessImage ==
    /\ phase = "files" /\ q_image # <<>> /\ gen = None
    /\ LET key == Head(q_image)
           rest == Tail(q_image)
       IN  IF Lower(PathSuffix(key)) # ".dcm"
           THEN \* not an image
                /\ q_image' = rest
                /\ hist' = [hist EXCEPT !.outcomes = @ \cup {Outcome("process_image", key, "not_image")}]
                /\ UNCHANGED <<gen, faults, q_copy, q_dicom>>
           ELSE IF ImageInCache(keycache, key)
           THEN \* files exist, nothing to do here
                /\ q_image' = rest
                /\ hist' = [hist EXCEPT !.outcomes = @ \cup {Outcome("process_image", key, "cached")}]
                /\ UNCHANGED <<gen, faults, q_copy, q_dicom>>
           ELSE \E download_fails \in FaultChoices :
                IF download_fails \/ store[key].type # "dicom"
                THEN \* download_fileobj or dcmread raises
                     /\ q_image' = AfterError(rest)
                     /\ faults' = Tick(download_fails)
                     /\ hist' = [hist EXCEPT !.fetched = @ \cup {key},
                                             !.outcomes = @ \cup {Outcome("process_image", key,
                                                 IF download_fails THEN "download_raised" ELSE "decode_raised")},
                                             !.clean = FALSE]
                     /\ UNCHANGED <<gen, q_copy, q_dicom>>
                ELSE LET image_data == dcmread(store[key])
                         date == get_date_from_key(key, RAW_PREFIX)
                     IN  IF ~Truthy(date)
                         THEN /\ q_image' = rest
                              /\ hist' = [hist EXCEPT !.fetched = @ \cup {key},
                                                      !.outcomes = @ \cup {Outcome("process_image", key, "no_date")}]
                              /\ UNCHANGED <<gen, faults, q_copy, q_dicom>>
                         ELSE \E check_fails \in FaultChoices :
                              LET new_key == ImageDataKey(key, image_data, date.value)
                                  metadata_key == ImageMetadataKey(key, image_data, date.value)
                                  response == Load(store, new_key, check_fails)
                                  exists == object_exists(response)
                                  seen == Checked("process_image", key, new_key, response)
                              IN  /\ faults' = Tick(check_fails)
                                  /\ IF exists.type = "raise"
                                     THEN /\ q_image' = AfterError(rest)
                                          /\ hist' = [hist EXCEPT !.fetched = @ \cup {key},
                                                        !.checks = @ \cup {seen},
                                                        !.outcomes = @ \cup {Outcome("process_image", key, "exists_raised")},
                                                        !.clean = FALSE]
                                          /\ UNCHANGED <<gen, q_copy, q_dicom>>
                                     ELSE /\ q_image' = rest
                                          /\ gen' = [type |-> "generator", obj |-> key,
                                                     image_data |-> image_data,
                                                     metadata_key |-> metadata_key]
                                          /\ IF ~exists.value
                                             THEN LET t == <<"copy", ObjectSummary(key), PyStr(new_key)>>
                                                  IN  /\ q_copy' = Append(q_copy, t)
                                                      /\ q_dicom' = Append(q_dicom, t)
                                                      /\ hist' = [hist EXCEPT !.fetched = @ \cup {key},
                                                                    !.checks = @ \cup {seen},
                                                                    !.emitted = @ \cup {Emitted("process_image", key, "copy", new_key)}]
                                             ELSE /\ hist' = [hist EXCEPT !.fetched = @ \cup {key},
                                                                !.checks = @ \cup {seen}]
                                                  /\ UNCHANGED <<q_copy, q_dicom>>
    /\ UNCHANGED <<store, keycache, run, phase, folders, q_patient, q_upload, added, call, other>>

\* process_image resumed: the second existence check and the "metadata" it may yield
ProcessImageMetadata ==
    /\ phase = "files" /\ gen # None
    /\ gen' = None
    /\ \E check_fails \in FaultChoices :
          LET key == gen.obj
              response == Load(store, gen.metadata_key, check_fails)
              exists == object_exists(response)
              seen == Checked("process_image", key, gen.metadata_key, response)
          IN  /\ faults' = Tick(check_fails)
              /\ IF exists.type = "raise"
                 THEN /\ q_image' = AfterError(q_image)
                      /\ hist' = [hist EXCEPT !.checks = @ \cup {seen},
                                    !.outcomes = @ \cup {Outcome("process_image", key, "exists_raised")},
                                    !.clean = FALSE]
                      /\ UNCHANGED <<q_copy, q_dicom>>
                 ELSE IF ~exists.value
                 THEN LET t == <<"metadata", PyStr(gen.metadata_key), gen.image_data>>
                      IN  /\ q_copy' = Append(q_copy, t)
                          /\ q_dicom' = Append(q_dicom, t)
                          /\ hist' = [hist EXCEPT !.checks = @ \cup {seen},
                                        !.emitted = @ \cup {Emitted("process_image", key, "metadata", gen.metadata_key)},
                                        !.outcomes = @ \cup {Outcome("process_image", key, "checked")}]
                          /\ UNCHANGED q_image
                 ELSE /\ hist' = [hist EXCEPT !.checks = @ \cup {seen},
                                    !.outcomes = @ \cup {Outcome("process_image", key, "checked")}]
                      /\ UNCHANGED <<q_image, q_copy, q_dicom>>
    /\ UNCHANGED <<store, keycache, run, phase, folders, q_patient, q_upload, added, call, other>>

\* process_dicom_data mutated: the task name never matches, nothing is passed on
ProcessDicomDataNoMatch ==
    /\ phase = "files" /\ q_dicom # <<>>
    /\ q_dicom' = Tail(q_dicom)
    /\ UNCHANGED <<store, keycache, run, phase, folders, q_image, q_patient, q_copy,
                   q_upload, gen, faults, hist, added, call, other>>

\* process_dicom_data: only "metadata" tuples are scrubbed and passed on
ProcessDicomData ==
    /\ phase = "files" /\ q_dicom # <<>>
    /\ q_dicom' = Tail(q_dicom)
    /\ LET args == Head(q_dicom)
       IN  IF args[1] = "metadata"
           THEN q_upload' = Append(q_upload, <<args[2], scrub_dicom(args[3])>>)
           ELSE UNCHANGED q_upload
    /\ UNCHANGED <<store, keycache, run, phase, folders, q_image, q_patient, q_copy,
                   gen, faults, hist, added, call, other>>

\* upload_extracted_dicom_data: bucket.put_object
UploadExtractedDicomData ==
    /\ phase = "files" /\ q_upload # <<>>
    /\ \E put_fails \in FaultChoices :
          LET args == Head(q_upload)
              metadata_key == args[1].value
          IN  /\ faults' = Tick(put_fails)
              /\ IF put_fails
                 THEN /\ q_upload' = AfterError(Tail(q_upload))
                      /\ hist' = [hist EXCEPT !.clean = FALSE,
                                    !.outcomes = @ \cup {Outcome("upload_extracted_dicom_data", metadata_key, "put_raised")}]
                      /\ UNCHANGED store
                 ELSE /\ q_upload' = Tail(q_upload)
                      /\ store' = PutObject(store, metadata_key, JsonBody(args[2]))
                      /\ hist' = [hist EXCEPT !.ops = @ \cup
                                    {[run |-> run, op |-> "put", src |-> args[2], dst |-> metadata_key]}]
    /\ UNCHANGED <<keycache, run, phase, folders, q_image, q_patient, q_copy, q_dicom,
                   gen, added, call, other>>

\* process_patient_data
ProcessPatientData ==
    /\ phase = "files" /\ q_patient # <<>>
    /\ LET key == Head(q_patient)
           rest == Tail(q_patient)
           m == PatientMatch(PathStem(key))
           date == get_date_from_key(key, RAW_PREFIX)
       IN  IF Lower(PathSuffix(key)) # ".json"
           THEN \* not a data file
                /\ q_patient' = rest
                /\ hist' = [hist EXCEPT !.outcomes = @ \cup {Outcome("process_patient_data", key, "not_data")}]
                /\ UNCHANGED <<faults, q_copy>>
           ELSE IF m = None
           THEN /\ q_patient' = rest
                /\ hist' = [hist EXCEPT !.outcomes = @ \cup {Outcome("process_patient_data", key, "no_match")}]
                /\ UNCHANGED <<faults, q_copy>>
           ELSE IF ~Truthy(date)
           THEN /\ q_patient' = rest
                /\ hist' = [hist EXCEPT !.outcomes = @ \cup {Outcome("process_patient_data", key, "no_date")}]
                /\ UNCHANGED <<faults, q_copy>>
           ELSE \E check_fails \in FaultChoices :
                LET new_key == PatientDataKey(m, date.value)
                    response == Load(store, new_key, check_fails)
                    exists == object_exists(response)
                    seen == Checked("process_patient_data", key, new_key, response)
                IN  /\ faults' = Tick(check_fails)
                    /\ IF exists.type = "raise"
                       THEN /\ q_patient' = AfterError(rest)
                            /\ hist' = [hist EXCEPT !.checks = @ \cup {seen}, !.clean = FALSE,
                                          !.outcomes = @ \cup {Outcome("process_patient_data", key, "exists_raised")}]
                            /\ UNCHANGED q_copy
                       ELSE IF ~exists.value
                       THEN /\ q_patient' = rest
                            /\ q_copy' = Append(q_copy, <<"copy", ObjectSummary(key), PyStr(new_key)>>)
                            /\ hist' = [hist EXCEPT !.checks = @ \cup {seen},
                                          !.emitted = @ \cup {Emitted("process_patient_data", key, "copy", new_key)},
                                          !.outcomes = @ \cup {Outcome("process_patient_data", key, "checked")}]
                       ELSE /\ q_patient' = rest
                            /\ hist' = [hist EXCEPT !.checks = @ \cup {seen},
                                          !.outcomes = @ \cup {Outcome("process_patient_data", key, "checked")}]
                            /\ UNCHANGED q_copy
    /\ UNCHANGED <<store, keycache, run, phase, folders, q_image, q_dicom, q_upload,
                   gen, added, call, other>>

\* data_copy: bucket.copy for a "copy" tuple, nothing for any other
DataCopy ==
    /\ phase = "files" /\ q_copy # <<>>
    /\ LET args == Head(q_copy)
       IN  IF args[1] = "copy" /\ args[2] # None /\ args[3] # None
           THEN \E copy_fails \in FaultChoices :
                LET src == args[2].key
                    new_key == args[3].value
                IN  /\ faults' = Tick(copy_fails)
                    /\ IF copy_fails
                       THEN /\ q_copy' = AfterError(Tail(q_copy))
                            /\ hist' = [hist EXCEPT !.clean = FALSE,
                                          !.outcomes = @ \cup {Outcome("data_copy", src, "copy_raised")}]
                            /\ UNCHANGED store
                       ELSE /\ q_copy' = Tail(q_copy)
                            /\ store' = Copy(store, src, new_key)
                            /\ hist' = [hist EXCEPT !.ops = @ \cup
                                          {[run |-> run, op |-> "copy", src |-> PyStr(src), dst |-> new_key]}]
           ELSE /\ q_copy' = Tail(q_copy)
                /\ UNCHANGED <<store, faults, hist>>
    /\ UNCHANGED <<keycache, run, phase, folders, q_image, q_patient, q_dicom, q_upload,
                   gen, added, call, other>>

\* the process is killed: whatever the nodes still hold is lost
Terminate ==
    /\ Running
    /\ phase' = "terminated"
    /\ folders' = <<>> /\ q_image' = <<>> /\ q_patient' = <<>>
    /\ q_copy' = <<>> /\ q_dicom' = <<>> /\ q_upload' = <<>>
    /\ gen' = None
    /\ UNCHANGED <<store, keycache, run, faults, hist, added, call, other>>

\* __main__: the loader is started again, with the services get_services builds
Main ==
    /\ ~Running
    /\ run < MaxRuns
    /\ run' = run + 1
    /\ keycache' = {}
    /\ added' = {}
    /\ phase' = "load"
    /\ hist' = [NoHistory EXCEPT !.ops = hist.ops, !.start = store,
                                 !.prev = IF Complete THEN "complete" ELSE "terminated"]
    /\ UNCHANGED <<store, folders, q_image, q_patient, q_copy, q_dicom, q_upload,
                   gen, faults, call, other>>

Next ==
    \/ LoadExistingFiles
    \/ ExtractRawFolders
    \/ ExtractRawFilesFromFolder
    \/ ProcessImage
    \/ ProcessImageMetadata
    \/ ProcessDicomData
    \/ UploadExtractedDicomData
    \/ ProcessPatientData
    \/ DataCopy
    \/ Terminate
    \/ Main

Spec == Init /\ [][Next]_vars

---------------------------------------------------------------------------
(* The key cache and the partition assignment called on their own *)

\* keys handed to KeyCache.add and KeyCache.exists
CacheKeys ==
    {"training/x-ray/P002/2022-01-05/img1.dcm",
     "validation/ct/P001/2022-01-06/img1.dcm",
     "training/x-ray-metadata/P002/2022-01-05/img1.json",
     "training/data/P002/2022-01-06/status.json",
     "training/mri/",
     "img1.dcm"}
QueryKeys == CacheKeys \cup {"raw/2022-01-05/studyA/img1.dcm", "validation/mri", "img2.json"}

\* get_services: a fresh KeyCache; nothing of the graph is running
InitCalls ==
    /\ store = <<>>
    /\ keycache = {}
    /\ added = {}
    /\ run = 0
    /\ phase = "calls"
    /\ folders = <<>> /\ q_image = <<>> /\ q_patient = <<>>
    /\ q_copy = <<>> /\ q_dicom = <<>> /\ q_upload = <<>>
    /\ gen = None
    /\ faults = 0
    /\ hist = NoHistory
    /\ call = NoCall
    /\ other = NoProcess

Frame ==
    UNCHANGED <<store, run, phase, folders, q_image, q_patient, q_copy, q_dicom,
                q_upload, gen, faults, hist, other>>

\* keycache.add(key)
CallAdd ==
    /\ \E key \in CacheKeys :
          /\ keycache' = KeyCacheAdd(keycache, key)
          /\ added' = added \cup {key}
          /\ call' = [fn |-> "add", key |-> key]
    /\ Frame

\* keycache.exists(key, fullpath)
CallExists ==
    /\ \E key \in QueryKeys, fullpath \in BOOLEAN :
          call' = [fn |-> "exists", key |-> key, fullpath |-> fullpath,
                   result |-> KeyCacheExists(keycache, key, fullpath)]
    /\ UNCHANGED <<keycache, added>>
    /\ Frame

\* patient_in_training_set(patient_id, training_percent)
CallPatientInTrainingSet ==
    /\ \E patient_id \in HashedIds, training_percent \in 0..100 :
          call' = [fn |-> "patient_in_training_set", patient_id |-> patient_id,
                   training_percent |-> training_percent,
                   result |-> patient_in_training_set(patient_id, training_percent)]
    /\ UNCHANGED <<keycache, added>>
    /\ Frame

NextCache == CallAdd \/ CallExists

\* any sequence of add and exists calls on one KeyCache
SpecCache == InitCalls /\ [][NextCache]_vars

\* scalars and keys of the JSON trees handed to the scrubber
Leaves == {PyStr("a"), None}
TreeKeys == {"InlineBinary", "00283010", "Value"}

\* a tree of trees: a mapping of one or two entries, or a sequence of one or two items
Wrap(S) ==
    {Dict((k :> t)) : k \in TreeKeys, t \in S}
        \cup {Dict((k :> t) @@ ("vr" :> PyStr("SQ"))) : k \in {"InlineBinary", "00283010"}, t \in S}
        \cup {Dict(("InlineBinary" :> t) @@ ("00283010" :> t)) : t \in S}
        \cup {List(<<t>>) : t \in S}
        \cup {List(<<PyStr("a"), t>>) : t \in S}

\* the trees of nesting depth n or less
RECURSIVE TreesOfDepth(_)
TreesOfDepth(n) == IF n = 0 THEN Leaves ELSE Leaves \cup Wrap(TreesOfDepth(n - 1))

Trees == TreesOfDepth(MaxDepth)

\* inplace_nullify(d, key)
CallInplaceNullify ==
    /\ call = NoCall
    /\ \E d \in Trees, key \in TreeKeys :
          call' = [fn |-> "inplace_nullify", d |-> d, key |-> key,
                   result |-> inplace_nullify(d, key)]
    /\ UNCHANGED <<keycache, added>>
    /\ Frame

\* scrub_dicom(fd), fd a dataset with any JSON model
CallScrubDicom ==
    /\ call = NoCall
    /\ \E d \in {t \in Trees : t.type = "dict"} :
          call' = [fn |-> "scrub_dicom", d |-> d, result |-> scrub_dicom(Dataset(d))]
    /\ UNCHANGED <<keycache, added>>
    /\ Frame

NextRedact == CallInplaceNullify \/ CallScrubDicom

\* one call of inplace_nullify or scrub_dicom, on any tree
SpecRedact == InitCalls /\ [][NextRedact]_vars

\* published keys a bucket may hold when object_exists is called on its own
ExistsKeys ==
    {"training/x-ray/P002/2022-01-05/img1.dcm",
     "training/x-ray-metadata/P002/2022-01-05/img1.json",
     "training/data/P002/2022-01-06/status.json",
     "validation/ct/P001/2022-01-06/img1.dcm"}

\* a bucket holding any of these keys; nothing of the graph is running
InitExists ==
    /\ \E keys \in SUBSET ExistsKeys : store = [k \in keys |-> Bytes(k)]
    /\ keycache = {}
    /\ added = {}
    /\ run = 0
    /\ phase = "calls"
    /\ folders = <<>> /\ q_image = <<>> /\ q_patient = <<>>
    /\ q_copy = <<>> /\ q_dicom = <<>> /\ q_upload = <<>>
    /\ gen = None
    /\ faults = 0
    /\ hist = NoHistory
    /\ call = NoCall
    /\ other = NoProcess

\* object_exists(key): load() succeeds, answers 404, or fails with another code
CallObjectExists ==
    /\ \E key \in ExistsKeys :
          \E response \in {Load(store, key, FALSE), Load(store, key, TRUE), "403"} :
              call' = [fn |-> "object_exists", key |-> key, response |-> response,
                       result |-> object_exists(response)]
    /\ UNCHANGED <<keycache, added>>
    /\ Frame

NextExists == CallObjectExists

\* any sequence of object_exists calls on one bucket
SpecExists == InitExists /\ [][NextExists]_vars

NextAssign == CallPatientInTrainingSet

\* any sequence of patient_in_training_set calls
SpecAssign == InitCalls /\ [][NextAssign]_vars

---------------------------------------------------------------------------
(* Two loader processes started on the same bucket *)

\* what a loader process holds: its key cache, the inputs of its nodes, its
\* history, and the number of switches so far when it is set aside
Process ==
    [switches |-> other.switches + 1, keycache |-> keycache, added |-> added, run |-> run, phase |-> phase,
     folders |-> folders, q_image |-> q_image, q_patient |-> q_patient,
     q_copy |-> q_copy, q_dicom |-> q_dicom, q_upload |-> q_upload,
     gen |-> gen, hist |-> hist]

\* a process that has just been started on bucket st, not scheduled yet
Started(n, st) ==
    [switches |-> 0, keycache |-> {}, added |-> {}, run |-> n, phase |-> "load",
     folders |-> <<>>, q_image |-> <<>>, q_patient |-> <<>>,
     q_copy |-> <<>>, q_dicom |-> <<>>, q_upload |-> <<>>,
     gen |-> None, hist |-> [NoHistory EXCEPT !.start = st]]

\* the process has consumed every input of every node
Finished(p) ==
    /\ p.phase = "files" /\ p.folders = <<>>
    /\ p.q_image = <<>> /\ p.q_patient = <<>> /\ p.q_copy = <<>>
    /\ p.q_dicom = <<>> /\ p.q_upload = <<>> /\ p.gen = None

\* the raw object two concurrent loaders are run on is one of these
ConcurrentKeys ==
    {"raw/2022-01-05/studyA/P001_data.json",
     "raw/2022-01-05/studyA/img1.dcm",
     "raw/2022-01-05/studyB/img1.dcm",
     "raw/2022-01-06/studyA/img1.dcm"}

InitConcurrent ==
    /\ \E key \in ConcurrentKeys : store = BucketOf({key})
    /\ keycache = {}
    /\ added = {}
    /\ run = 1
    /\ phase = "load"
    /\ folders = <<>> /\ q_image = <<>> /\ q_patient = <<>>
    /\ q_copy = <<>> /\ q_dicom = <<>> /\ q_upload = <<>>
    /\ gen = None
    /\ faults = MaxFaults   \* the bucket answers no error while the two run
    /\ hist = [NoHistory EXCEPT !.start = store]
    /\ call = NoCall
    /\ other = Started(2, store)

\* the scheduler lets the other process take the next steps
Switch ==
    /\ other # NoProcess
    /\ other.switches < MaxSwitches
    /\ ~Finished(other)
    /\ other' = Process
    /\ keycache' = other.keycache /\ added' = other.added
    /\ run' = other.run /\ phase' = other.phase
    /\ folders' = other.folders /\ q_image' = other.q_image /\ q_patient' = other.q_patient
    /\ q_copy' = other.q_copy /\ q_dicom' = other.q_dicom /\ q_upload' = other.q_upload
    /\ gen' = other.gen
    /\ hist' = [other.hist EXCEPT !.ops = hist.ops]
    /\ UNCHANGED <<store, faults, call>>

NextConcurrent ==
    \/ LoadExistingFiles
    \/ ExtractRawFolders
    \/ ExtractRawFilesFromFolder
    \/ ProcessImage
    \/ ProcessImageMetadata
    \/ ProcessDicomData
    \/ UploadExtractedDicomData
    \/ ProcessPatientData
    \/ DataCopy
    \/ Switch

\* two runs of the graph, their steps interleaved in any order
SpecConcurrent == InitConcurrent /\ [][NextConcurrent]_vars

---------------------------------------------------------------------------
(* The graph run over a bucket that holds one object of any kind *)

RouteKeys == {RouteUniverse[i] : i \in DOMAIN RouteUniverse}
RouteImageKeys == {"raw/2022-01-07/a/b/scan.2.DCM", "raw/2022-01-07/scan1.dcm"}
RouteModalities == {"DX", "CR", "MR", "CT", "US", "dx"}

\* one image of any patient and modality, or one object that is not an image
RouteBuckets ==
    {(k :> DicomFile(p, m, "2.1")) : k \in RouteImageKeys, p \in HashedIds, m \in RouteModalities}
        \cup {(k :> Bytes(k)) : k \in RouteKeys \ RouteImageKeys}

InitRoute ==
    /\ store \in RouteBuckets
    /\ keycache = {}
    /\ added = {}
    /\ run = 1
    /\ phase = "load"
    /\ folders = <<>> /\ q_image = <<>> /\ q_patient = <<>>
    /\ q_copy = <<>> /\ q_dicom = <<>> /\ q_upload = <<>>
    /\ gen = None
    /\ faults = 0
    /\ hist = [NoHistory EXCEPT !.start = store]
    /\ call = NoCall
    /\ other = NoProcess

SpecRoute == InitRoute /\ [][Next]_vars

---------------------------------------------------------------------------
(* One run of the loader that is left to finish *)

\* the nodes of the graph: the process is not killed and not started again
NextFirstRun ==
    \/ LoadExistingFiles
    \/ ExtractRawFolders
    \/ ExtractRawFilesFromFolder
    \/ ProcessImage
    \/ ProcessImageMetadata
    \/ ProcessDicomData
    \/ UploadExtractedDicomData
    \/ ProcessPatientData
    \/ DataCopy

\* The steps in which a node of the graph takes the input at the head of its
\* queue (the first three nodes of the chain have one input each; process_image
\* resumes its generator before it takes another object)
LoadExistingFilesTakes == phase = "load" /\ phase' = "folders"
ExtractRawFoldersTakes == phase = "folders" /\ phase' = "files"
ExtractRawFilesFromFolderTakes ==
    phase = "files" /\ folders # <<>> /\ folders' = Tail(folders)
ProcessImageTakes ==
    phase = "files" /\ gen = None /\ q_image # <<>> /\ q_image' = Tail(q_image)
ProcessImageResumes == phase = "files" /\ gen # None /\ gen' = None
ProcessDicomDataTakes == phase = "files" /\ q_dicom # <<>> /\ q_dicom' = Tail(q_dicom)
UploadExtractedDicomDataTakes ==
    phase = "files" /\ q_upload # <<>> /\ q_upload' = Tail(q_upload)
ProcessPatientDataTakes ==
    phase = "files" /\ q_patient # <<>> /\ q_patient' = Tail(q_patient)
DataCopyTakes == phase = "files" /\ q_copy # <<>> /\ q_copy' = Tail(q_copy)

\* bonobo runs every node in a thread of its own: a node that has an input
\* waiting is eventually scheduled and takes it
NodesScheduled ==
    /\ WF_phase(LoadExistingFilesTakes)
    /\ WF_phase(ExtractRawFoldersTakes)
    /\ WF_folders(ExtractRawFilesFromFolderTakes)
    /\ WF_q_image(ProcessImageTakes)
    /\ WF_gen(ProcessImageResumes)
    /\ WF_q_dicom(ProcessDicomDataTakes)
    /\ WF_q_upload(UploadExtractedDicomDataTakes)
    /\ WF_q_patient(ProcessPatientDataTakes)
    /\ WF_q_copy(DataCopyTakes)

SpecFirstRun == Init /\ [][NextFirstRun]_vars /\ NodesScheduled

---------------------------------------------------------------------------
(* Claims about the key cache (SpecCache) and the assignment (SpecAssign) *)

Basenames(keys) == {PathName(k) : k \in keys}

\* C8: after any sequence of add calls, exists(k, fullpath=True) answers true for
\* every key that was added, and false for a key that was added neither as a full
\* key nor as a basename.
C8_FullPathLookup ==
    (call.fn = "exists" /\ call.fullpath) =>
        /\ (call.key \in added => call.result)
        /\ (call.key \notin added /\ call.key \notin Basenames(added) => ~call.result)

\* C9: add(k) records both k and the basename of k, entries are never removed,
\* and exists(q) in the default filename mode answers true exactly when the
\* basename of q is the basename of some key added before.
C9_FilenameLookup ==
    /\ \A k \in added : PyStr(k) \in keycache /\ PyStr(PathName(k)) \in keycache
    /\ (call.fn = "exists" /\ ~call.fullpath) =>
          (call.result <=> PathName(call.key) \in Basenames(added))

\* a filename lookup that hits through the basename only: the queried key itself
\* was never added, another key with its basename was
C9_Witness ==
    /\ call.fn = "exists" /\ ~call.fullpath /\ call.result
    /\ call.key = "raw/2022-01-05/studyA/img1.dcm"
    /\ "img1.dcm" \notin added
    /\ "validation/ct/P001/2022-01-06/img1.dcm" \in added

\* C10: patient_in_training_set(p, t) is true exactly when the digest of the
\* upper-cased id, reduced modulo 100, is strictly less than t; ids that differ
\* only in case get the same answer; t = 0 sends every patient to Validation and
\* t = 100 every patient to Training.
C10_PartitionAssignment ==
    call.fn = "patient_in_training_set" =>
        /\ call.result <=> DigestMod100[Upper(call.patient_id)] < call.training_percent
        /\ \A q \in HashedIds :
              Upper(q) = Upper(call.patient_id) =>
                  patient_in_training_set(q, call.training_percent) = call.result
        /\ call.training_percent = 0 => ~call.result
        /\ call.training_percent = 100 => call.result

\* the cut-off is strict: an id whose residue is 60 is in Validation at 60 percent
C10_Witness ==
    /\ call.fn = "patient_in_training_set"
    /\ call.patient_id = "p006" /\ call.training_percent = TRAINING_PERCENTAGE
    /\ DigestMod100["P006"] = TRAINING_PERCENTAGE
    /\ ~call.result

---------------------------------------------------------------------------
(* Claims about the runs of the graph (Spec) *)

\* the n-th "/"-separated segment of s
RECURSIVE Segment(_, _)
Segment(s, n) ==
    LET i == IndexIn(s, "/")
        first == IF i = 0 THEN s ELSE SubSeq(s, 1, i - 1)
    IN  IF n = 1 \/ i = 0 THEN first ELSE Segment(SubSeq(s, i + 1, Len(s)), n - 1)

RawIn(st) == {k \in DOMAIN st : StartsWith(k, RAW_PREFIX)}
Published(st) ==
    {k \in DOMAIN st : StartsWith(k, TRAINING_PREFIX) \/ StartsWith(k, VALIDATION_PREFIX)}

IsImage(key) == Lower(PathSuffix(key)) = ".dcm"
\* the object is an image whose header can be decoded
Decodable(st, key) == IsImage(key) /\ st[key].type = "dicom"
IsPatientData(key) == Lower(PathSuffix(key)) = ".json" /\ PatientMatch(PathStem(key)) # None

\* the key has a date segment after raw/ that is not empty
HasDate(key) ==
    LET d == get_date_from_key(key, RAW_PREFIX) IN d # None /\ d # PyStr("")

DateOf(key) == get_date_from_key(key, RAW_PREFIX).value
DataKeyOf(st, key) ==
    IF IsImage(key) THEN ImageDataKey(key, dcmread(st[key]), DateOf(key))
    ELSE PatientDataKey(PatientMatch(PathStem(key)), DateOf(key))
MetadataKeyOf(st, key) == ImageMetadataKey(key, dcmread(st[key]), DateOf(key))

\* the published keys a raw object is routed to
Targets(st, key) ==
    IF ~HasDate(key) THEN {}
    ELSE IF Decodable(st, key) THEN {DataKeyOf(st, key), MetadataKeyOf(st, key)}
    ELSE IF IsPatientData(key) THEN {DataKeyOf(st, key)}
    ELSE {}

\* what publishing raw object key under target writes there
ContentFor(st, key, target) ==
    IF Decodable(st, key) /\ target = MetadataKeyOf(st, key)
    THEN JsonBody(scrub_dicom(dcmread(st[key])))
    ELSE st[key]

\* C1: a raw object whose target keys all exist when a run starts gets no task
\* and no copy or put in that run.
C1_Idempotence ==
    \A o \in RawIn(store) :
        LET T == Targets(store, o)
        IN  (T # {} /\ T \subseteq DOMAIN hist.start) =>
                /\ \A e \in hist.emitted : e.obj # o
                /\ \A op \in hist.ops : op.run = run => op.dst \notin T

\* a second run has handled an image and a clinical file that were both fully
\* published when it started
C1_Witness ==
    /\ run > 1
    /\ \E o \in RawIn(store) :
          /\ IsImage(o) /\ Targets(store, o) # {}
          /\ Targets(store, o) \subseteq DOMAIN hist.start
          /\ \E how \in {"cached", "checked"} : Outcome("process_image", o, how) \in hist.outcomes
    /\ \E o \in RawIn(store) :
          /\ IsPatientData(o) /\ Targets(store, o) # {}
          /\ Targets(store, o) \subseteq DOMAIN hist.start
          /\ Outcome("process_patient_data", o, "checked") \in hist.outcomes

\* C2: all keys published for one patient id, letter case ignored, lie under the
\* same partition prefix.
C2_PatientStablePartitions ==
    \A k1, k2 \in Published(store) :
        Upper(Segment(k1, 3)) = Upper(Segment(k2, 3)) => Segment(k1, 1) = Segment(k2, 1)

\* keys are published for two spellings of one patient id
C2_Witness ==
    \E k1, k2 \in Published(store) :
        /\ Segment(k1, 3) # Segment(k2, 3)
        /\ Upper(Segment(k1, 3)) = Upper(Segment(k2, 3))

\* C3: after a terminated run and a complete error-free run over the same raw
\* objects, every key the terminated run published is unchanged and the
\* published keys and contents are those of one uninterrupted run.
C3_CrashRestartConvergence ==
    (run = 2 /\ hist.prev = "terminated" /\ hist.clean /\ Complete) =>
        /\ \A k \in DOMAIN hist.start : k \in DOMAIN store /\ store[k] = hist.start[k]
        /\ Published(store) = UNION {Targets(store, o) : o \in RawIn(store)}
        /\ \A k \in Published(store) :
              \E o \in RawIn(store) :
                  k \in Targets(store, o) /\ store[k] = ContentFor(store, o, k)

\* C4: over all runs, each target key is written by at most one copy or put.
C4_AtMostOncePerKey ==
    \A k \in Published(store) : Cardinality({op \in hist.ops : op.dst = k}) <= 1

\* C5: two raw objects with different keys and different content are never
\* routed to the same published key.
C5_KeyInjectivity ==
    \A c1, c2 \in hist.checks :
        (c1.obj # c2.obj /\ store[c1.obj] # store[c2.obj]) => c1.key # c2.key

\* C6: process_image yields a copy exactly when its live check of the data key
\* answered not-found, and a metadata tuple exactly when its live check of the
\* metadata key answered not-found, and nothing else.
C6_IndependentEmission ==
    \A o \in RawIn(store) :
        (Decodable(store, o) /\ HasDate(o)) =>
            LET copy == Emitted("process_image", o, "copy", DataKeyOf(store, o))
                meta == Emitted("process_image", o, "metadata", MetadataKeyOf(store, o))
            IN  /\ copy \in hist.emitted <=>
                      Checked("process_image", o, DataKeyOf(store, o), "404") \in hist.checks
                /\ meta \in hist.emitted <=>
                      Checked("process_image", o, MetadataKeyOf(store, o), "404") \in hist.checks
                /\ {e \in hist.emitted : e.node = "process_image" /\ e.obj = o} \subseteq {copy, meta}

\* one image was found half published (a metadata tuple only) and another
\* unpublished (both tuples)
C6_Witness ==
    \E o1, o2 \in RawIn(store) :
        /\ Decodable(store, o1) /\ HasDate(o1) /\ Decodable(store, o2) /\ HasDate(o2)
        /\ Checked("process_image", o1, DataKeyOf(store, o1), "200") \in hist.checks
        /\ Emitted("process_image", o1, "metadata", MetadataKeyOf(store, o1)) \in hist.emitted
        /\ Emitted("process_image", o1, "copy", DataKeyOf(store, o1)) \notin hist.emitted
        /\ Emitted("process_image", o2, "copy", DataKeyOf(store, o2)) \in hist.emitted
        /\ Emitted("process_image", o2, "metadata", MetadataKeyOf(store, o2)) \in hist.emitted

---------------------------------------------------------------------------
(* Claims about the routing of one object (SpecRoute) *)

\* the text after the last "/" of s
RECURSIVE LastSegment(_)
LastSegment(s) ==
    LET i == IndexIn(s, "/")
    IN  IF i = 0 THEN s ELSE LastSegment(SubSeq(s, i + 1, Len(s)))

PartitionOf(p) ==
    IF DigestMod100[Upper(p)] < TRAINING_PERCENTAGE THEN "training" ELSE "validation"

ModalityBucket(m) ==
    IF m \in {"DX", "CR"} THEN "x-ray"
    ELSE IF m = "MR" THEN "mri"
    ELSE IF m = "CT" THEN "ct"
    ELSE "unknown"

\* <partition>/<bucket(M)>/<P>/<date>/<name>.dcm
RoutedDataKey(st, o) ==
    PartitionOf(st[o].PatientID) \o "/" \o ModalityBucket(st[o].Modality) \o "/"
        \o st[o].PatientID \o "/" \o Segment(o, 2) \o "/" \o LastSegment(o)

\* <partition>/<bucket(M)>-metadata/<P>/<date>/<name>.json
RoutedMetadataKey(st, o) ==
    PartitionOf(st[o].PatientID) \o "/" \o ModalityBucket(st[o].Modality) \o "-metadata/"
        \o st[o].PatientID \o "/" \o Segment(o, 2) \o "/"
        \o SubSeq(LastSegment(o), 1, Len(LastSegment(o)) - 4) \o ".json"

\* C11: every existence check, yielded tuple, copy and put of an image with
\* patient id P and modality M uses the data key
\* <partition>/<bucket(M)>/<P>/<date>/<name>.dcm and the metadata key
\* <partition>/<bucket(M)>-metadata/<P>/<date>/<name>.json, sub-folders dropped,
\* and a complete error-free first run has published both, whatever the modality.
C11_ImageRouting ==
    \A o \in RawIn(store) :
        (Decodable(store, o) /\ HasDate(o)) =>
            LET d == RoutedDataKey(store, o)
                m == RoutedMetadataKey(store, o)
            IN  /\ \A c \in hist.checks : c.obj = o => c.key \in {d, m}
                /\ \A e \in hist.emitted :
                      e.obj = o => \/ e.task = "copy" /\ e.key = d
                                   \/ e.task = "metadata" /\ e.key = m
                /\ \A op \in hist.ops :
                      /\ op.src = PyStr(o) => op.op = "copy" /\ op.dst = d
                      /\ op.src = scrub_dicom(dcmread(store[o])) => op.op = "put" /\ op.dst = m
                /\ (run = 1 /\ Complete /\ hist.clean) =>
                      /\ d \in DOMAIN store /\ store[d] = store[o]
                      /\ m \in DOMAIN store
                      /\ Published(store) = {d, m}

\* an image of an unrecognized modality, two folders deep, is published under unknown
C11_Witness ==
    /\ "raw/2022-01-07/a/b/scan.2.DCM" \in DOMAIN store
    /\ store["raw/2022-01-07/a/b/scan.2.DCM"].Modality = "US"
    /\ "training/unknown/p002/2022-01-07/scan.2.DCM" \in DOMAIN store
    /\ "training/unknown-metadata/p002/2022-01-07/scan.2.json" \in DOMAIN store

\* <partition>/data/<P>/<date>/<kind>.json of a clinical file <P>_<kind>.json
ClinicalKey(o) ==
    LET name == LastSegment(o)
        stem == SubSeq(name, 1, Len(name) - 5)
        u == RFind(stem, "_")
        P == SubSeq(stem, 1, u - 1)
    IN  PartitionOf(P) \o "/data/" \o P \o "/" \o Segment(o, 2) \o "/"
            \o SubSeq(stem, u + 1, Len(stem)) \o ".json"

\* C12: process_patient_data checks and yields only the key
\* <partition>/data/<P>/<date>/<kind>.json, and once its existence check has
\* answered it has yielded a copy to that key exactly when the key was absent.
C12_ClinicalRouting ==
    \A o \in RawIn(store) :
        (IsPatientData(o) /\ HasDate(o)) =>
            LET k == ClinicalKey(o)
                copy == Emitted("process_patient_data", o, "copy", k)
            IN  /\ \A c \in hist.checks :
                      c.obj = o => c.node = "process_patient_data" /\ c.key = k
                /\ \A e \in hist.emitted : e.obj = o => e = copy
                /\ \A op \in hist.ops : op.src = PyStr(o) => op.op = "copy" /\ op.dst = k
                /\ Outcome("process_patient_data", o, "checked") \in hist.outcomes =>
                      (copy \in hist.emitted <=> k \notin DOMAIN hist.start)
                /\ Outcome("process_patient_data", o, "exists_raised") \in hist.outcomes =>
                      copy \notin hist.emitted

\* a second run has checked a clinical file whose key the first run published
C12_Witness ==
    /\ run = 2
    /\ "training/data/p002/2022-01-07/data.json" \in DOMAIN hist.start
    /\ Outcome("process_patient_data", "raw/2022-01-07/a/b/p002_data.json", "checked") \in hist.outcomes
    /\ hist.emitted = {}

---------------------------------------------------------------------------
(* Claims about the redaction (SpecRedact) *)

KeyStep(k) == [k |-> k, i |-> 0]
IndexStep(i) == [k |-> "", i |-> i]

\* the paths from the root of t to each of its nodes
RECURSIVE Paths(_)
Paths(t) ==
    {<<>>} \cup
        IF t.type = "dict"
        THEN UNION {{<<KeyStep(k)>> \o p : p \in Paths(t.items[k])} : k \in DOMAIN t.items}
        ELSE IF t.type = "list"
        THEN UNION {{<<IndexStep(i)>> \o p : p \in Paths(t.items[i])} : i \in DOMAIN t.items}
        ELSE {}

\* the node of t at the end of path p
RECURSIVE At(_, _)
At(t, p) ==
    IF p = <<>> THEN t
    ELSE At(IF Head(p).k # "" THEN t.items[Head(p).k] ELSE t.items[Head(p).i], Tail(p))

\* a node without its children
Shape(t) ==
    IF t.type = "dict" THEN [type |-> "dict", keys |-> DOMAIN t.items]
    ELSE IF t.type = "list" THEN [type |-> "list", len |-> Len(t.items)]
    ELSE t

\* r is t with every entry named in keys nulled and nothing else changed
Redacted(t, r, keys) ==
    /\ \A p \in Paths(t) :
          LET hits == {i \in 1..Len(p) : p[i].k \in keys}
          IN  IF hits = {} THEN p \in Paths(r) /\ Shape(At(r, p)) = Shape(At(t, p))
              ELSE IF hits = {Len(p)} THEN p \in Paths(r) /\ At(r, p) = None
              ELSE TRUE
    /\ Paths(r) \subseteq Paths(t)

\* C13: inplace_nullify nulls the value of every entry named key, at every depth,
\* inside mappings and sequences alike, and changes nothing else of the tree;
\* scrub_dicom does so for InlineBinary and 00283010.
C13_Redaction ==
    /\ call.fn = "inplace_nullify" => Redacted(call.d, call.result, {call.key})
    /\ call.fn = "scrub_dicom" => Redacted(call.d, call.result, {"InlineBinary", "00283010"})

\* a sensitive entry inside a mapping inside a sequence of sequences was nulled
C13_Witness ==
    /\ call.fn = "inplace_nullify" /\ call.key = "InlineBinary"
    /\ call.d = List(<<List(<<Dict(("InlineBinary" :> PyStr("a")) @@ ("vr" :> PyStr("SQ")))>>)>>)
    /\ call.result = List(<<List(<<Dict(("InlineBinary" :> None) @@ ("vr" :> PyStr("SQ")))>>)>>)

---------------------------------------------------------------------------
(* Claims about failures (Spec) *)

Raised == {"download_raised", "decode_raised", "exists_raised", "copy_raised", "put_raised"}

\* a call made for raw object o has raised in this run
Failed(o) ==
    \E out \in hist.outcomes :
        /\ out.how \in Raised
        /\ \/ out.obj = o
           \/ out.node = "upload_extracted_dicom_data" /\ out.obj \in Targets(store, o)

C15_ExistenceCheckOutcomes ==
    call.fn = "object_exists" =>
        /\ call.response = "200" => call.key \in DOMAIN store /\ call.result = Return(TRUE)
        /\ call.response = "404" => call.key \notin DOMAIN store /\ call.result = Return(FALSE)
        /\ call.response \notin {"200", "404"} => call.result = Raise("ClientError")

---------------------------------------------------------------------------
(* Claims about two concurrent runs (SpecConcurrent) *)

\* C16: however the steps of two concurrent runs interleave, every published
\* key holds the content of a raw object that is routed to it: the object
\* itself under a data key, its scrubbed header under a metadata key.
C16_ConcurrentRunsBenign ==
    \A k \in Published(store) :
        \E o \in RawIn(store) :
            k \in Targets(store, o) /\ store[k] = ContentFor(store, o, k)

\* both runs are over, and each has copied the same image to the same key and
\* put its metadata
C16_Witness ==
    /\ Complete /\ Finished(other)
    /\ \E c1, c2, p1, p2 \in hist.ops :
          /\ c1.run = 1 /\ c2.run = 2 /\ c1.op = "copy" /\ c2.op = "copy"
          /\ c1.src = c2.src /\ c1.dst = c2.dst
          /\ p1.run = 1 /\ p2.run = 2 /\ p1.op = "put" /\ p2.op = "put"
          /\ p1.dst = p2.dst

---------------------------------------------------------------------------
(* Claims about the nodes of the graph (Spec, SpecRoute) *)

\* C17: from the moment load_existing_files has returned, hence whenever
\* process_image consults it, the key cache holds the full key and the file name
\* of every key that was published when the run started and nothing else; it
\* holds no key published during the run.
C17_CacheBeforeFanOut ==
    phase \in {"folders", "files"} =>
        /\ added = Published(hist.start)
        /\ keycache = {PyStr(k) : k \in added} \cup {PyStr(LastSegment(k)) : k \in added}
        /\ \A op \in hist.ops :
              (op.run = run /\ op.dst \notin DOMAIN hist.start) => PyStr(op.dst) \notin keycache

\* process_image has consulted a cache filled from both partitions, and the run
\* has published a key that the cache does not hold
C17_Witness ==
    /\ phase = "files"
    /\ \E k1, k2 \in added : StartsWith(k1, TRAINING_PREFIX) /\ StartsWith(k2, VALIDATION_PREFIX)
    /\ \E out \in hist.outcomes : out.node = "process_image" /\ out.how = "checked"
    /\ \E op \in hist.ops : op.run = run /\ op.dst \notin DOMAIN hist.start

\* the key cache holds the file name of image o and <imageId>.json
BothNamesCached(o) ==
    /\ PyStr(LastSegment(o)) \in keycache
    /\ PyStr(SubSeq(LastSegment(o), 1, Len(LastSegment(o)) - 4) \o ".json") \in keycache

\* process_image has finished with o in this run
ImageHandled(o) == \E out \in hist.outcomes : out.node = "process_image" /\ out.obj = o

\* o was skipped: no fetch, no existence check, no tuple
Skipped(o) ==
    /\ o \notin hist.fetched
    /\ \A c \in hist.checks : c.obj # o
    /\ \A e \in hist.emitted : e.obj # o

\* C18 as stated: an image is skipped exactly when the key cache holds both
\* names, and otherwise it is fetched and both live existence checks are made.
C18_CachePreCheck ==
    \A o \in RawIn(store) :
        (IsImage(o) /\ ImageHandled(o)) =>
            IF BothNamesCached(o) THEN Skipped(o)
            ELSE /\ o \in hist.fetched
                 /\ \E c \in hist.checks : c.obj = o /\ c.key = DataKeyOf(store, o)
                 /\ \E c \in hist.checks : c.obj = o /\ c.key = MetadataKeyOf(store, o)

\* C18 amended: an image is skipped exactly when the key cache holds both names;
\* otherwise it is fetched, and if the fetch and the decoding succeed and the key
\* has a date, the data key is checked and, unless that check raises, the
\* metadata key too; without a date no check is made.
C18_CachePreCheckAmended ==
    \A o \in RawIn(store) :
        (IsImage(o) /\ ImageHandled(o)) =>
            IF BothNamesCached(o) THEN Skipped(o)
            ELSE /\ o \in hist.fetched
                 /\ \/ \E how \in {"download_raised", "decode_raised"} :
                          Outcome("process_image", o, how) \in hist.outcomes
                    \/ ~HasDate(o) /\ \A c \in hist.checks : c.obj # o
                    \/ /\ HasDate(o)
                       /\ \E c \in hist.checks :
                             /\ c.obj = o /\ c.key = DataKeyOf(store, o)
                             /\ \/ c.response = "500"
                                \/ \E c2 \in hist.checks :
                                       c2.obj = o /\ c2.key = MetadataKeyOf(store, o)

\* the cache held the file name of an image but not <imageId>.json: the image was
\* fetched and both keys were checked
C18_Witness ==
    \E o \in RawIn(store) :
        /\ IsImage(o) /\ ImageHandled(o)
        /\ PyStr(LastSegment(o)) \in keycache /\ ~BothNamesCached(o)
        /\ o \in hist.fetched
        /\ Checked("process_image", o, DataKeyOf(store, o), "200") \in hist.checks
        /\ Checked("process_image", o, MetadataKeyOf(store, o), "404") \in hist.checks

\* the file name of o ends in .dcm, in either case
ImageName(o) == \E ext \in {".dcm", ".DCM"} : EndsWith(LastSegment(o), ext)

\* the file name of o is <patientId>_<data|status>.json, the extension in either case
ClinicalName(o) ==
    \E kind \in {"_data", "_status"}, ext \in {".json", ".JSON"} :
        EndsWith(LastSegment(o), kind \o ext)

\* process_image went past its file type check for o
ImagePath(o) ==
    \E out \in hist.outcomes : out.node = "process_image" /\ out.obj = o /\ out.how # "not_image"

\* process_patient_data went past its file type and file name checks for o
ClinicalPath(o) ==
    \E out \in hist.outcomes :
        out.node = "process_patient_data" /\ out.obj = o /\ out.how \notin {"not_data", "no_match"}

\* C19: process_image takes up exactly the objects whose extension is .dcm,
\* process_patient_data exactly those named <patientId>_<data|status>.json (the
\* extension in either case), never both, and any other object is neither
\* fetched nor checked, yields nothing and raises nothing.
C19_Classification ==
    \A o \in RawIn(store) :
        /\ ImageHandled(o) => (ImagePath(o) <=> ImageName(o))
        /\ (\E out \in hist.outcomes : out.node = "process_patient_data" /\ out.obj = o) =>
              (ClinicalPath(o) <=> ClinicalName(o))
        /\ ~(ImagePath(o) /\ ClinicalPath(o))
        /\ (~ImageName(o) /\ ~ClinicalName(o)) =>
              /\ Skipped(o)
              /\ \A op \in hist.ops : op.src # PyStr(o)
              /\ \A out \in hist.outcomes :
                    out.obj = o => out.how \in {"not_image", "not_data", "no_match"}

\* a run is over in which a .json file that is no clinical file was dropped by
\* both nodes
C19_Witness ==
    /\ Complete
    /\ Outcome("process_image", "raw/2022-01-07/a/manifest.json", "not_image") \in hist.outcomes
    /\ Outcome("process_patient_data", "raw/2022-01-07/a/manifest.json", "no_match") \in hist.outcomes
    /\ Published(store) = {}

\* the tuple process_image or process_patient_data yielded for e
TupleOf(e) ==
    IF e.task = "copy" THEN <<"copy", ObjectSummary(e.obj), PyStr(e.key)>>
    ELSE <<"metadata", PyStr(e.key), dcmread(store[e.obj])>>

\* what process_dicom_data passes on for a "metadata" tuple
UploadOf(e) == <<PyStr(e.key), scrub_dicom(dcmread(store[e.obj]))>>

Count(q, t) == Cardinality({i \in DOMAIN q : q[i] = t})

\* the copies and puts that tuple e has led to so far, those still to come included
CopiesOf(e) ==
    Count(q_copy, TupleOf(e))
        + Cardinality({op \in hist.ops : op = [run |-> run, op |-> "copy",
                                               src |-> PyStr(e.obj), dst |-> e.key]})
PutsOf(e) ==
    Count(q_dicom, TupleOf(e)) + Count(q_upload, UploadOf(e))
        + Cardinality({op \in hist.ops : op = [run |-> run, op |-> "put",
                                               src |-> UploadOf(e)[2], dst |-> e.key]})

\* the step hands each tuple it yields to the nodes wired to the yielding node
Delivered ==
    \A e \in hist'.emitted \ hist.emitted :
        /\ q_copy' = Append(q_copy, TupleOf(e))
        /\ IF e.node = "process_image"
           THEN q_dicom' = Append(q_dicom, TupleOf(e))
           ELSE q_dicom' = q_dicom

\* each tuple yielded in the running process leads to one call and one only
Dispatched ==
    phase = "files" =>
        \A e \in hist.emitted :
            IF e.task = "copy"
            THEN /\ CopiesOf(e) <= 1
                 /\ CopiesOf(e) = 0 => Outcome("data_copy", e.obj, "copy_raised") \in hist.outcomes
                 /\ \A op \in hist.ops : op.dst = e.key => op.op = "copy"
                 /\ \A i \in DOMAIN q_upload : q_upload[i][1] # PyStr(e.key)
            ELSE /\ PutsOf(e) <= 1
                 /\ PutsOf(e) = 0 =>
                       Outcome("upload_extracted_dicom_data", e.key, "put_raised") \in hist.outcomes
                 /\ \A op \in hist.ops : op.dst = e.key => op.op = "put"

\* C20: a tuple yielded by process_image is appended to the inputs of data_copy
\* and of process_dicom_data, one yielded by process_patient_data to those of
\* data_copy only; a "copy" tuple leads to exactly one bucket.copy from its raw
\* key to its target key (none if that call raises) and to no put, a "metadata"
\* tuple to exactly one put of the scrubbed header to its key (none if that call
\* raises) and to no copy.
C20_TaskDispatch == []Dispatched /\ [][Delivered]_vars

\* a run is over that copied an image and a clinical file and put the metadata
C20_Witness ==
    /\ Complete
    /\ \E e1, e2, e3 \in hist.emitted :
          /\ e1.node = "process_image" /\ e1.task = "copy" /\ CopiesOf(e1) = 1
          /\ e2.node = "process_image" /\ e2.task = "metadata" /\ PutsOf(e2) = 1
          /\ e3.node = "process_patient_data" /\ CopiesOf(e3) = 1

---------------------------------------------------------------------------
(* C21: the raw area is never mutated *)

\* a key of the published area
InPublished(k) == StartsWith(k, TRAINING_PREFIX) \/ StartsWith(k, VALIDATION_PREFIX)

\* the target keys of the copies and puts the loader has made or is about to make
IssuedTargets ==
    {op.dst : op \in hist.ops}
        \cup {q_copy[i][3].value : i \in {j \in DOMAIN q_copy : q_copy[j][1] = "copy"}}
        \cup {q_dicom[i][2].value : i \in {j \in DOMAIN q_dicom : q_dicom[j][1] = "metadata"}}
        \cup {q_upload[i][1].value : i \in DOMAIN q_upload}
        \cup (IF gen = None THEN {} ELSE {gen.metadata_key})

\* one step neither deletes an object nor writes under raw/
RawUntouched ==
    /\ \A k \in DOMAIN store : k \in DOMAIN store'
    /\ \A k \in DOMAIN store' :
          StartsWith(k, RAW_PREFIX) => k \in DOMAIN store /\ store'[k] = store[k]

\* C21: every copy or put the loader issues targets a key that starts with
\* training/ or validation/; no step writes, overwrites or deletes an object
\* under raw/, and no step deletes a published key.
C21_RawNeverMutated ==
    /\ [](\A k \in IssuedTargets : InPublished(k))
    /\ [][RawUntouched]_vars

\* a second run is over, after copies and puts in both runs, one of the copies
\* over an object another copy had published
C21_Witness ==
    /\ Complete /\ run = MaxRuns
    /\ \E c, p \in hist.ops :
          /\ c.op = "copy" /\ p.op = "put" /\ c.run < p.run
    /\ \E a, b \in hist.ops : a.op = "copy" /\ b.op = "copy" /\ a.src # b.src /\ a.dst = b.dst

---------------------------------------------------------------------------
(* C22: completeness of a first run (SpecFirstRun) *)

\* the published partitions held nothing when the run started
FirstRun == run = 1 /\ Published(hist.start) = {}

\* every dated raw image has its data key and its metadata key in the bucket,
\* every dated raw clinical file its data key
AllPublished ==
    \A o \in RawIn(store) :
        /\ IsImage(o) /\ HasDate(o) =>
              /\ Decodable(store, o)
              /\ DataKeyOf(store, o) \in DOMAIN store
              /\ MetadataKeyOf(store, o) \in DOMAIN store
        /\ IsPatientData(o) /\ HasDate(o) => DataKeyOf(store, o) \in DOMAIN store

=============================================================================
